---------------------------- MODULE Spec2Model ----------------------------
(***************************************************************************)
(* A model of the ring buffer of git-siyun/ringbuf.                        *)
(*                                                                         *)
(* The repository holds two versions of the engine:                        *)
(*   variant "A"  src/ringbuf.c          ringbuf_write / ringbuf_writeForce *)
(*                                       / ringbuf_read(obj, pdata, length) *)
(*   variant "B"  src/unnamed/part_000   ringbuf_write(.., force) and       *)
(*                                       ringbuf_read(.., strictRead)       *)
(* Every other function is textually the same in both files.               *)
(*                                                                         *)
(* A ringbuf_t is the record [arr, size, used, front, rear]; arr is a      *)
(* function from 0 .. size-1 to bytes.  Each C function is an operator     *)
(* from the object and the arguments to [obj, ret, out]: the object after  *)
(* the call, the value returned and the bytes copied to the caller.  Loops *)
(* are RECURSIVE operators that take the loop's steps one by one.          *)
(*                                                                         *)
(* uint16_t is scaled down to 0 .. UINT16_MAX: a store to a uint16_t field *)
(* or local is reduced modulo UINT16_MAX + 1, expressions are evaluated in *)
(* int (assumed wider than uint16_t, as on every 32-bit target).  uint8_t  *)
(* is scaled down to Byte.  The object pointer and the caller's buffers    *)
(* are never NULL, and a caller's buffer holds exactly `length` bytes.     *)
(*                                                                         *)
(* The caller makes one call at a time: a call turns `obj` into the call's *)
(* result and records itself in `call` (operation, arguments, object       *)
(* before, value returned, bytes handed out); Return forgets the record.   *)
(*                                                                         *)
(* `heap` is the allocator behind ringbuf_malloc / ringbuf_free (the blocks *)
(* outstanding, and whether a block not outstanding was ever freed) and    *)
(* `ptr` tells whether the caller holds a ringbuf_t * from ringbuf_create;  *)
(* `obj` is then the record it points to.                                  *)
(***************************************************************************)
EXTENDS Integers, Sequences, FiniteSets, TLC

VARIABLES variant, obj, call, fifo, heap, ptr

vars == <<variant, obj, call, fifo, heap, ptr>>

\* Largest value of the (scaled) uint16_t: sizes, counts and indices are 0 .. UINT16_MAX.
UINT16_MAX == 3

\* The (scaled) uint8_t values; 0 is the string terminator '\0'.
Byte == {0, 1}

\* A store into a uint16_t.
U16(x) == x % (UINT16_MAX + 1)

UInt16 == 0 .. UINT16_MAX

Min(a, b) == IF a <= b THEN a ELSE b

Max(a, b) == IF a >= b THEN a ELSE b

\* abs() of <stdlib.h>.
abs(x) == IF x < 0 THEN -x ELSE x

\* The caller's buffers: byte sequences of every length a uint16_t can give.
Data == UNION {[1 .. n -> Byte] : n \in UInt16}

\* arr == NULL.
NULL == <<>>

---------------------------------------------------------------------------
(* Construction *)

\* ringbuf_init on a caller's array `a` of `size` bytes (obj and arr non-NULL).
ringbuf_init(o, a, size) ==
    IF size <= 0
    THEN [obj |-> o, ret |-> FALSE, out |-> <<>>]
    ELSE [obj |-> [arr |-> a, size |-> size, used |-> 0, front |-> 0, rear |-> 0],
          ret |-> TRUE, out |-> <<>>]

\* ringbuf_deinit.
ringbuf_deinit(o) ==
    [obj |-> [arr |-> NULL, size |-> 0, used |-> 0, front |-> 0, rear |-> 0],
     ret |-> 0, out |-> <<>>]

---------------------------------------------------------------------------
(* Dynamic construction *)

\* The object of a pointer that is NULL or not yet assigned: no storage, all 0.
NoObject == [arr |-> NULL, size |-> 0, used |-> 0, front |-> 0, rear |-> 0]

\* The two requests ringbuf_create makes: sizeof(ringbuf_t) and size bytes.
Block == {"obj", "arr"}

\* No block outstanding.
EmptyHeap == [live |-> {}, bad |-> FALSE]

\* ringbuf_malloc for `block`: `ok` tells whether the allocator has the memory.
ringbuf_malloc(h, block, ok) ==
    IF ok
    THEN [heap |-> [h EXCEPT !.live = @ \cup {block}], ptr |-> TRUE]
    ELSE [heap |-> h, ptr |-> FALSE]

\* ringbuf_free of `block`; freeing a block that is not outstanding is recorded.
ringbuf_free(h, block) ==
    IF block \in h.live
    THEN [h EXCEPT !.live = @ \ {block}]
    ELSE [h EXCEPT !.bad = TRUE]

\* ringbuf_create that returns NULL on the failure of the second request
\* without ringbuf_free(obj).
ringbuf_create_leak(h, size, ok1, ok2, a) ==
    IF size <= 0
    THEN [obj |-> NoObject, ret |-> FALSE, out |-> <<>>, heap |-> h]
    ELSE LET m1 == ringbuf_malloc(h, "obj", ok1) IN
         IF ~m1.ptr
         THEN [obj |-> NoObject, ret |-> FALSE, out |-> <<"malloc obj">>, heap |-> m1.heap]
         ELSE LET m2 == ringbuf_malloc(m1.heap, "arr", ok2) IN
              IF ~m2.ptr
              THEN [obj |-> NoObject, ret |-> FALSE,
                    out |-> <<"malloc obj", "malloc arr">>,
                    heap |-> m2.heap]
              ELSE [obj |-> [arr |-> a, size |-> size, used |-> 0, front |-> 0, rear |-> 0],
                    ret |-> TRUE, out |-> <<"malloc obj", "malloc arr">>, heap |-> m2.heap]

\* ringbuf_create(size): ret tells whether the pointer returned is not NULL, out
\* lists the calls made to the allocator, `a` is what the new storage holds.
ringbuf_create(h, size, ok1, ok2, a) ==
    IF size <= 0
    THEN [obj |-> NoObject, ret |-> FALSE, out |-> <<>>, heap |-> h]
    ELSE LET m1 == ringbuf_malloc(h, "obj", ok1) IN
         IF ~m1.ptr
         THEN [obj |-> NoObject, ret |-> FALSE, out |-> <<"malloc obj">>, heap |-> m1.heap]
         ELSE LET m2 == ringbuf_malloc(m1.heap, "arr", ok2) IN
              IF ~m2.ptr
              THEN [obj |-> NoObject, ret |-> FALSE,
                    out |-> <<"malloc obj", "malloc arr", "free obj">>,
                    heap |-> ringbuf_free(m2.heap, "obj")]
              ELSE [obj |-> [arr |-> a, size |-> size, used |-> 0, front |-> 0, rear |-> 0],
                    ret |-> TRUE, out |-> <<"malloc obj", "malloc arr">>, heap |-> m2.heap]

\* ringbuf_delete(p): `p` tells whether the pointer is not NULL, o is *p.
ringbuf_delete(h, p, o) ==
    IF ~p
    THEN [obj |-> o, ret |-> 0, out |-> <<>>, heap |-> h]
    ELSE IF o.arr # NULL
    THEN [obj |-> NoObject, ret |-> 0, out |-> <<"free arr", "free obj">>,
          heap |-> ringbuf_free(ringbuf_free(h, "arr"), "obj")]
    ELSE [obj |-> NoObject, ret |-> 0, out |-> <<"free obj">>,
          heap |-> ringbuf_free(h, "obj")]

---------------------------------------------------------------------------
(* Status queries *)

ringbuf_getUsedLength(o) == o.used

ringbuf_isEmpty(o) == o.used = 0

ringbuf_isFull(o) == o.used >= o.size

---------------------------------------------------------------------------
(* Write, variant A *)

\* The for loop of ringbuf_write: one byte per step while len < length and len < space.
RECURSIVE write_loop(_, _, _, _, _)
write_loop(o, pdata, length, space, len) ==
    IF len < length /\ len < space
    THEN write_loop([o EXCEPT !.arr[o.rear] = pdata[len + 1],
                              !.rear = U16((o.rear + 1) % o.size),
                              !.used = U16(o.used + 1)],
                    pdata, length, space, U16(len + 1))
    ELSE [obj |-> o, ret |-> len, out |-> <<>>]

\* ringbuf_write without the limit `len < space`: the copy runs over stored bytes.
ringbuf_write_nospace(o, pdata, length) ==
    IF length = 0 \/ o.size = 0
    THEN [obj |-> o, ret |-> 0, out |-> <<>>]
    ELSE write_loop(o, pdata, length, length, 0)

ringbuf_write(o, pdata, length) ==
    IF length = 0 \/ o.size = 0
    THEN [obj |-> o, ret |-> 0, out |-> <<>>]
    ELSE write_loop(o, pdata, length, U16(o.size - o.used), 0)

\* The for loop of ringbuf_writeForce: every byte is stored; a step that takes
\* used above size moves front on and puts used back to size.
RECURSIVE writeForce_loop(_, _, _, _)
writeForce_loop(o, pdata, length, len) ==
    IF len < length
    THEN LET o1 == [o EXCEPT !.arr[o.rear] = pdata[len + 1],
                             !.rear = U16((o.rear + 1) % o.size),
                             !.used = U16(o.used + 1)]
             o2 == IF o1.used > o1.size
                   THEN [o1 EXCEPT !.front = U16((o1.front + 1) % o1.size),
                                   !.used = o1.size]
                   ELSE o1
         IN  writeForce_loop(o2, pdata, length, U16(len + 1))
    ELSE [obj |-> o, ret |-> length, out |-> <<>>]

ringbuf_writeForce(o, pdata, length) ==
    IF length = 0 \/ o.size = 0
    THEN [obj |-> o, ret |-> 0, out |-> <<>>]
    ELSE writeForce_loop(o, pdata, length, 0)

---------------------------------------------------------------------------
(* Write, variant B *)

\* The copy loop of the flag-based ringbuf_write: `written` bytes at rear.
RECURSIVE writeB_loop(_, _, _, _)
writeB_loop(o, pdata, written, i) ==
    IF i < written
    THEN writeB_loop([o EXCEPT !.arr[o.rear] = pdata[i + 1],
                               !.rear = U16((o.rear + 1) % o.size)],
                     pdata, written, U16(i + 1))
    ELSE o

\* The flag-based ringbuf_write without its `length > space` refusal: a request
\* that does not fit is cut to the space.
ringbuf_writeB_truncate(o, pdata, length, force) ==
    IF length = 0 \/ o.size = 0
    THEN [obj |-> o, ret |-> 0, out |-> <<>>]
    ELSE LET space == IF force THEN o.size ELSE U16(o.size - o.used)
             written == IF length < space THEN length ELSE space
             o1 == writeB_loop(o, pdata, written, 0)
             o2 == IF force /\ written > o.size - o.used
                   THEN LET cover_len == U16(written - (o.size - o.used)) IN
                        [o1 EXCEPT !.front = U16((o.front + cover_len) % o.size),
                                   !.used = o.size]
                   ELSE [o1 EXCEPT !.used = U16(o.used + written)]
         IN  [obj |-> o2, ret |-> written, out |-> <<>>]

ringbuf_writeB(o, pdata, length, force) ==
    IF length = 0 \/ o.size = 0
    THEN [obj |-> o, ret |-> 0, out |-> <<>>]
    ELSE LET space == IF force THEN o.size ELSE U16(o.size - o.used) IN
         IF length > space
         THEN [obj |-> o, ret |-> 0, out |-> <<>>]
         ELSE LET written == IF length < space THEN length ELSE space
                  o1 == writeB_loop(o, pdata, written, 0)
                  o2 == IF force /\ written > o.size - o.used
                        THEN LET cover_len == U16(written - (o.size - o.used)) IN
                             [o1 EXCEPT !.front = U16((o.front + cover_len) % o.size),
                                        !.used = o.size]
                        ELSE [o1 EXCEPT !.used = U16(o.used + written)]
              IN  [obj |-> o2, ret |-> written, out |-> <<>>]

---------------------------------------------------------------------------
(* Read *)

\* The copy loop of ringbuf_read: pdata[i] = arr[front], front moves on.
RECURSIVE read_loop(_, _, _, _)
read_loop(o, pdata, readLength, i) ==
    IF i < readLength
    THEN read_loop([o EXCEPT !.front = U16((o.front + 1) % o.size)],
                   Append(pdata, o.arr[o.front]), readLength, U16(i + 1))
    ELSE [obj |-> o, out |-> pdata]

\* ringbuf_read without `obj->used -= readLength`.
ringbuf_read_keepused(o, length) ==
    IF length = 0 \/ o.used = 0
    THEN [obj |-> o, ret |-> 0, out |-> <<>>]
    ELSE LET readLength == IF length <= o.used THEN length ELSE o.used
             r == read_loop(o, <<>>, readLength, 0)
         IN  [obj |-> r.obj, ret |-> readLength, out |-> r.out]

\* Variant A.
ringbuf_read(o, length) ==
    IF length = 0 \/ o.used = 0
    THEN [obj |-> o, ret |-> 0, out |-> <<>>]
    ELSE LET readLength == IF length <= o.used THEN length ELSE o.used
             r == read_loop(o, <<>>, readLength, 0)
         IN  [obj |-> [r.obj EXCEPT !.used = U16(o.used - readLength)],
              ret |-> readLength, out |-> r.out]

\* The strict ringbuf_read refusing `length >= used` instead of `length > used`.
ringbuf_readB_strictge(o, length, strictRead) ==
    IF length = 0 \/ o.used = 0
    THEN [obj |-> o, ret |-> 0, out |-> <<>>]
    ELSE IF strictRead /\ length >= o.used
    THEN [obj |-> o, ret |-> 0, out |-> <<>>]
    ELSE LET readLength == IF length > o.used THEN o.used ELSE length
             r == read_loop(o, <<>>, readLength, 0)
         IN  [obj |-> [r.obj EXCEPT !.used = U16(o.used - readLength)],
              ret |-> readLength, out |-> r.out]

\* Variant B.
ringbuf_readB(o, length, strictRead) ==
    IF length = 0 \/ o.used = 0
    THEN [obj |-> o, ret |-> 0, out |-> <<>>]
    ELSE IF strictRead /\ length > o.used
    THEN [obj |-> o, ret |-> 0, out |-> <<>>]
    ELSE LET readLength == IF length > o.used THEN o.used ELSE length
             r == read_loop(o, <<>>, readLength, 0)
         IN  [obj |-> [r.obj EXCEPT !.used = U16(o.used - readLength)],
              ret |-> readLength, out |-> r.out]

---------------------------------------------------------------------------
(* Remove *)

\* ringbuf_remove comparing `length >= used` without abs().
ringbuf_remove_noabs(o, length) ==
    IF length = 0 \/ o.used = 0
    THEN [obj |-> o, ret |-> 0, out |-> <<>>]
    ELSE IF length >= o.used
    THEN [obj |-> [o EXCEPT !.front = 0, !.rear = 0, !.used = 0],
          ret |-> U16(o.used), out |-> <<>>]
    ELSE IF length > 0
    THEN [obj |-> [o EXCEPT !.front = U16((o.front + length) % o.size),
                            !.used = U16(o.used - length)],
          ret |-> U16(length), out |-> <<>>]
    ELSE [obj |-> [o EXCEPT !.rear = U16((o.rear + o.size + length) % o.size),
                            !.used = U16(o.used + length)],
          ret |-> U16(-length), out |-> <<>>]

\* ringbuf_remove whose negative branch takes the bytes from the front.
ringbuf_remove_lifofront(o, length) ==
    IF length = 0 \/ o.used = 0
    THEN [obj |-> o, ret |-> 0, out |-> <<>>]
    ELSE IF abs(length) >= o.used
    THEN [obj |-> [o EXCEPT !.front = 0, !.rear = 0, !.used = 0],
          ret |-> U16(o.used), out |-> <<>>]
    ELSE IF length > 0
    THEN [obj |-> [o EXCEPT !.front = U16((o.front + length) % o.size),
                            !.used = U16(o.used - length)],
          ret |-> U16(length), out |-> <<>>]
    ELSE [obj |-> [o EXCEPT !.front = U16((o.front - length) % o.size),
                            !.used = U16(o.used + length)],
          ret |-> U16(-length), out |-> <<>>]

\* ringbuf_remove whose positive branch leaves front where it was.
ringbuf_remove_nofront(o, length) ==
    IF length = 0 \/ o.used = 0
    THEN [obj |-> o, ret |-> 0, out |-> <<>>]
    ELSE IF abs(length) >= o.used
    THEN [obj |-> [o EXCEPT !.front = 0, !.rear = 0, !.used = 0],
          ret |-> U16(o.used), out |-> <<>>]
    ELSE IF length > 0
    THEN [obj |-> [o EXCEPT !.used = U16(o.used - length)],
          ret |-> U16(length), out |-> <<>>]
    ELSE [obj |-> [o EXCEPT !.rear = U16((o.rear + o.size + length) % o.size),
                            !.used = U16(o.used + length)],
          ret |-> U16(-length), out |-> <<>>]

\* `length` is an int: positive removes from the front, negative from the rear.
ringbuf_remove(o, length) ==
    IF length = 0 \/ o.used = 0
    THEN [obj |-> o, ret |-> 0, out |-> <<>>]
    ELSE IF abs(length) >= o.used
    THEN [obj |-> [o EXCEPT !.front = 0, !.rear = 0, !.used = 0],
          ret |-> U16(o.used), out |-> <<>>]
    ELSE IF length > 0
    THEN [obj |-> [o EXCEPT !.front = U16((o.front + length) % o.size),
                            !.used = U16(o.used - length)],
          ret |-> U16(length), out |-> <<>>]
    ELSE [obj |-> [o EXCEPT !.rear = U16((o.rear + o.size + length) % o.size),
                            !.used = U16(o.used + length)],
          ret |-> U16(-length), out |-> <<>>]

---------------------------------------------------------------------------
(* Random-access view and edit *)

\* The store loop of ringbuf_modify: arr[(start_pos + i) % size] = pdata[i].
RECURSIVE modify_loop(_, _, _, _, _)
modify_loop(o, pdata, length, start_pos, i) ==
    IF i < length
    THEN modify_loop([o EXCEPT !.arr[(start_pos + i) % o.size] = pdata[i + 1]],
                     pdata, length, start_pos, U16(i + 1))
    ELSE o

\* ringbuf_modify without the check of length against used - index.
ringbuf_modify_nolength(o, index, length, pdata) ==
    IF index >= o.used \/ o.size = 0
    THEN [obj |-> o, ret |-> FALSE, out |-> <<>>]
    ELSE LET start_pos == U16((o.front + index) % o.size) IN
         [obj |-> modify_loop(o, pdata, length, start_pos, 0), ret |-> TRUE, out |-> <<>>]

\* ringbuf_modify(obj, index, length, pdata) (the argument order of variant A).
ringbuf_modify(o, index, length, pdata) ==
    IF index >= o.used \/ length > (o.used - index) \/ o.size = 0
    THEN [obj |-> o, ret |-> FALSE, out |-> <<>>]
    ELSE LET start_pos == U16((o.front + index) % o.size) IN
         [obj |-> modify_loop(o, pdata, length, start_pos, 0), ret |-> TRUE, out |-> <<>>]

\* The copy loop of ringbuf_peek: pdata[i] = arr[(start_pos + i) % size].
RECURSIVE peek_loop(_, _, _, _, _)
peek_loop(o, pdata, length, start_pos, i) ==
    IF i < length
    THEN peek_loop(o, Append(pdata, o.arr[(start_pos + i) % o.size]),
                   length, start_pos, U16(i + 1))
    ELSE pdata

\* ringbuf_peek taking index as a position in the storage, not relative to front.
ringbuf_peek_absolute(o, index, length) ==
    IF index >= o.used \/ length > (o.used - index) \/ o.size = 0
    THEN [obj |-> o, ret |-> FALSE, out |-> <<>>]
    ELSE LET start_pos == U16(index % o.size) IN
         [obj |-> o, ret |-> TRUE, out |-> peek_loop(o, <<>>, length, start_pos, 0)]

\* ringbuf_peek that takes the bytes out as ringbuf_read does.
ringbuf_peek_consume(o, index, length) ==
    IF index >= o.used \/ length > (o.used - index) \/ o.size = 0
    THEN [obj |-> o, ret |-> FALSE, out |-> <<>>]
    ELSE LET start_pos == U16((o.front + index) % o.size) IN
         [obj |-> [o EXCEPT !.front = U16((o.front + length) % o.size),
                            !.used = U16(o.used - length)],
          ret |-> TRUE, out |-> peek_loop(o, <<>>, length, start_pos, 0)]

ringbuf_peek(o, index, length) ==
    IF index >= o.used \/ length > (o.used - index) \/ o.size = 0
    THEN [obj |-> o, ret |-> FALSE, out |-> <<>>]
    ELSE LET start_pos == U16((o.front + index) % o.size) IN
         [obj |-> o, ret |-> TRUE, out |-> peek_loop(o, <<>>, length, start_pos, 0)]

\* The fill loop of ringbuf_memset: arr[start] = value, start moves on.
RECURSIVE memset_loop(_, _, _, _, _)
memset_loop(o, value, length, start, i) ==
    IF i < length
    THEN memset_loop([o EXCEPT !.arr[start] = value], value, length,
                     U16((start + 1) % o.size), U16(i + 1))
    ELSE o

\* ringbuf_memset taking index as a position in the storage, not relative to front.
ringbuf_memset_nofront(o, index, value, length) ==
    IF length = 0 \/ index >= o.size
    THEN [obj |-> o, ret |-> 0, out |-> <<>>]
    ELSE LET start == U16(index % o.size)
             len == IF length <= o.size THEN length ELSE o.size
         IN  [obj |-> memset_loop(o, value, len, start, 0), ret |-> len, out |-> <<>>]

ringbuf_memset(o, index, value, length) ==
    IF length = 0 \/ index >= o.size
    THEN [obj |-> o, ret |-> 0, out |-> <<>>]
    ELSE LET start == U16((o.front + index) % o.size)
             len == IF length <= o.size THEN length ELSE o.size
         IN  [obj |-> memset_loop(o, value, len, start, 0), ret |-> len, out |-> <<>>]

---------------------------------------------------------------------------
(* String scans *)

\* The `const char *substring` arguments: non-zero bytes closed by '\0'.
CString == UNION {{s \o <<0>> : s \in [1 .. n -> Byte \ {0}]} : n \in UInt16}

\* The while loop of ringbuf_strlen: count goes up while count < used and the
\* byte at start is not '\0'.
RECURSIVE strlen_loop(_, _, _)
strlen_loop(o, start, count) ==
    IF count < o.used /\ o.arr[start] # 0
    THEN strlen_loop(o, U16((start + 1) % o.size), U16(count + 1))
    ELSE count

ringbuf_strlen(o, index) ==
    IF index >= o.used
    THEN [obj |-> o, ret |-> 0, out |-> <<>>]
    ELSE LET start == U16((o.front + index) % o.size) IN
         [obj |-> o, ret |-> strlen_loop(o, start, 0), out |-> <<>>]

\* The while loop of ringbuf_strchr: `used` bytes are looked at from start on.
RECURSIVE strchr_loop(_, _, _, _, _)
strchr_loop(o, index, ch, start, count) ==
    IF count < o.used
    THEN IF o.arr[start] = ch
         THEN (index + count) % o.used
         ELSE strchr_loop(o, index, ch, U16((start + 1) % o.size), U16(count + 1))
    ELSE -1

ringbuf_strchr(o, index, ch) ==
    IF index >= o.used
    THEN [obj |-> o, ret |-> -1, out |-> <<>>]
    ELSE LET start == U16((o.front + index) % o.size) IN
         [obj |-> o, ret |-> strchr_loop(o, index, ch, start, 0), out |-> <<>>]

\* The first while loop of ringbuf_strstr: the length of the substring.
RECURSIVE strstr_sublen(_, _)
strstr_sublen(substring, substring_len) ==
    IF substring[substring_len + 1] # 0
    THEN strstr_sublen(substring, U16(substring_len + 1))
    ELSE substring_len

\* The for loop of ringbuf_strstr: the i reached when it breaks or ends.
RECURSIVE strstr_match(_, _, _, _, _)
strstr_match(o, substring, substring_len, start, i) ==
    IF i < substring_len
    THEN IF o.arr[(start + i) % o.size] # substring[i + 1]
         THEN i
         ELSE strstr_match(o, substring, substring_len, start, U16(i + 1))
    ELSE i

\* The second while loop of ringbuf_strstr going on while index + count <= used,
\* whatever the length of the substring.
RECURSIVE strstr_loop_overrun(_, _, _, _, _, _)
strstr_loop_overrun(o, index, substring, substring_len, start, count) ==
    IF index + count <= o.used
    THEN IF strstr_match(o, substring, substring_len, start, 0) = substring_len
         THEN (index + count) % o.used
         ELSE strstr_loop_overrun(o, index, substring, substring_len,
                                  U16((start + 1) % o.size), U16(count + 1))
    ELSE -1

\* The second while loop of ringbuf_strstr.
RECURSIVE strstr_loop(_, _, _, _, _, _)
strstr_loop(o, index, substring, substring_len, start, count) ==
    IF index + count + substring_len <= o.used
    THEN IF strstr_match(o, substring, substring_len, start, 0) = substring_len
         THEN (index + count) % o.used
         ELSE strstr_loop(o, index, substring, substring_len,
                          U16((start + 1) % o.size), U16(count + 1))
    ELSE -1

ringbuf_strstr(o, index, substring) ==
    IF index >= o.used
    THEN [obj |-> o, ret |-> -1, out |-> <<>>]
    ELSE LET substring_len == strstr_sublen(substring, 0)
             start == U16((o.front + index) % o.size)
         IN  [obj |-> o, ret |-> strstr_loop(o, index, substring, substring_len, start, 0),
              out |-> <<>>]

---------------------------------------------------------------------------
(* Cursor resynchronisation *)

\* ringbuf_updatePointer storing the cursors before it checks them.
ringbuf_updatePointer_storefirst(o, front, rear, used) ==
    IF used > o.size
    THEN [obj |-> o, ret |-> FALSE, out |-> <<>>]
    ELSE LET f == U16(front % o.size)
             r == U16(rear % o.size)
             u == U16(used % o.size)
             len == U16(IF f <= r THEN r - f ELSE o.size - f + r)
         IN  [obj |-> [o EXCEPT !.front = f, !.rear = r, !.used = u],
              ret |-> ~(len # u /\ ~(len = 0 /\ u = o.size)), out |-> <<>>]

\* ringbuf_updatePointer on a bound buffer (size > 0): the three arguments are
\* reduced modulo size before the check and before the stores.
ringbuf_updatePointer(o, front, rear, used) ==
    IF used > o.size
    THEN [obj |-> o, ret |-> FALSE, out |-> <<>>]
    ELSE LET f == U16(front % o.size)
             r == U16(rear % o.size)
             u == U16(used % o.size)
             len == U16(IF f <= r THEN r - f ELSE o.size - f + r)
         IN  IF len # u /\ ~(len = 0 /\ u = o.size)
             THEN [obj |-> o, ret |-> FALSE, out |-> <<>>]
             ELSE [obj |-> [o EXCEPT !.front = f, !.rear = r, !.used = u],
                   ret |-> TRUE, out |-> <<>>]

\* ringbuf_updatePointer on an unbound buffer (size = 0) with used = 0: the
\* test `used > obj->size` is false and `front % obj->size`, `rear % obj->size`
\* and `used % obj->size` divide by zero.  Where the division does not trap,
\* each of the three yields some uint16_t (f, r, u) and the function goes on
\* with them: the set of the results it can then produce.
updatePointer_div0(o) ==
    {LET len == U16(IF f <= r THEN r - f ELSE o.size - f + r) IN
     IF len # u /\ ~(len = 0 /\ u = o.size)
     THEN [obj |-> o, ret |-> FALSE, out |-> <<>>]
     ELSE [obj |-> [o EXCEPT !.front = f, !.rear = r, !.used = u],
           ret |-> TRUE, out |-> <<>>]
     : f \in UInt16, r \in UInt16, u \in UInt16}

---------------------------------------------------------------------------
(* The logical view of a buffer *)

\* The stored bytes, oldest first: arr[(front + i) % size] for i < used.
Contents(o) == [i \in 1 .. o.used |-> o.arr[(o.front + i - 1) % o.size]]

\* The data model's invariant on one object.
RingInv(o) ==
    /\ o.size > 0
    /\ o.used \in 0 .. o.size
    /\ o.front \in 0 .. o.size - 1
    /\ o.rear \in 0 .. o.size - 1
    /\ o.rear = (o.front + o.used) % o.size

---------------------------------------------------------------------------
(* The caller *)

\* The record of one call: the operation, its arguments (a record of the
\* operation's own parameters), the object before it, the value returned and
\* the bytes handed to the caller.
MkCall(op, args, pre, res) ==
    [op |-> op, args |-> args, pre |-> pre, ret |-> res.ret, out |-> res.out]

\* No call recorded: the caller is between two calls.
Idle(o) == MkCall("none", <<>>, o, [ret |-> 0, out |-> <<>>])

\* ringbuf_init(&obj, arr, size) with size in 1 .. UINT16_MAX on an array of any
\* contents, linked against either variant; nothing has been called yet.
Init ==
    /\ variant \in {"A", "B"}
    /\ \E size \in 1 .. UINT16_MAX : \E a \in [0 .. size - 1 -> Byte] :
          obj = ringbuf_init([arr |-> NULL, size |-> 0, used |-> 0, front |-> 0, rear |-> 0],
                             a, size).obj
    /\ call = Idle(obj)
    /\ fifo = [q |-> <<>>, out |-> <<>>]
    /\ heap = EmptyHeap
    /\ ptr = FALSE

\* The caller is between two calls.
Ready == call.op = "none"

\* One call: the object becomes the call's result and the call is recorded.
Do(op, args, res) ==
    /\ obj' = res.obj
    /\ call' = MkCall(op, args, obj, res)
    /\ UNCHANGED <<variant, fifo, heap, ptr>>

Write ==
    /\ Ready
    /\ variant = "A"
    /\ \E pdata \in Data :
          Do("write", [data |-> pdata, length |-> Len(pdata)],
             ringbuf_write(obj, pdata, Len(pdata)))

WriteForce ==
    /\ Ready
    /\ variant = "A"
    /\ \E pdata \in Data :
          Do("writeForce", [data |-> pdata, length |-> Len(pdata)],
             ringbuf_writeForce(obj, pdata, Len(pdata)))

WriteB ==
    /\ Ready
    /\ variant = "B"
    /\ \E pdata \in Data, force \in BOOLEAN :
          Do("writeB", [data |-> pdata, length |-> Len(pdata), flag |-> force],
             ringbuf_writeB(obj, pdata, Len(pdata), force))

Read ==
    /\ Ready
    /\ variant = "A"
    /\ \E length \in UInt16 :
          Do("read", [length |-> length], ringbuf_read(obj, length))

ReadB ==
    /\ Ready
    /\ variant = "B"
    /\ \E length \in UInt16, strictRead \in BOOLEAN :
          Do("readB", [length |-> length, flag |-> strictRead],
             ringbuf_readB(obj, length, strictRead))

Remove ==
    /\ Ready
    /\ \E length \in -(UINT16_MAX + 1) .. UINT16_MAX + 1 :
          Do("remove", [length |-> length], ringbuf_remove(obj, length))

Modify ==
    /\ Ready
    /\ \E index \in UInt16, pdata \in Data :
          Do("modify", [index |-> index, data |-> pdata, length |-> Len(pdata)],
             ringbuf_modify(obj, index, Len(pdata), pdata))

Peek ==
    /\ Ready
    /\ \E index \in UInt16, length \in UInt16 :
          Do("peek", [index |-> index, length |-> length], ringbuf_peek(obj, index, length))

Memset ==
    /\ Ready
    /\ \E index \in UInt16, value \in Byte, length \in UInt16 :
          Do("memset", [index |-> index, value |-> value, length |-> length],
             ringbuf_memset(obj, index, value, length))

\* The calls of ringbuf_updatePointer that divide by a size above 0 or return
\* at `used > obj->size`.
UpdatePointer ==
    /\ Ready
    /\ \E front \in UInt16, rear \in UInt16, used \in UInt16 :
          /\ obj.size > 0 \/ used > obj.size
          /\ Do("updatePointer", [front |-> front, rear |-> rear, used |-> used],
                ringbuf_updatePointer(obj, front, rear, used))

\* ringbuf_updatePointer(front, rear, 0) on an unbound buffer: the division by
\* zero traps, or the call returns one of the results of updatePointer_div0.
UpdatePointerDiv0 ==
    /\ Ready
    /\ obj.size = 0
    /\ \E front \in UInt16, rear \in UInt16 :
          \/ \E res \in updatePointer_div0(obj) :
                Do("updatePointerDiv0", [front |-> front, rear |-> rear, used |-> 0], res)
          \/ Do("trap", [front |-> front, rear |-> rear, used |-> 0],
                [obj |-> obj, ret |-> 0, out |-> <<>>])

\* ringbuf_deinit(&obj).
Deinit ==
    /\ Ready
    /\ Do("deinit", <<>>, ringbuf_deinit(obj))

\* ringbuf_init(&obj, arr, size) at any time, on an array of any contents;
\* size 0 is refused.
Reinit ==
    /\ Ready
    /\ \E size \in UInt16 : \E a \in [0 .. size - 1 -> Byte] :
          Do("init", [size |-> size], ringbuf_init(obj, a, size))

Strlen ==
    /\ Ready
    /\ \E index \in UInt16 :
          Do("strlen", [index |-> index], ringbuf_strlen(obj, index))

Strchr ==
    /\ Ready
    /\ \E index \in UInt16, ch \in Byte :
          Do("strchr", [index |-> index, ch |-> ch], ringbuf_strchr(obj, index, ch))

Strstr ==
    /\ Ready
    /\ \E index \in UInt16, substring \in CString :
          Do("strstr", [index |-> index, substring |-> substring],
             ringbuf_strstr(obj, index, substring))

GetUsedLength ==
    /\ Ready
    /\ Do("getUsedLength", <<>>, [obj |-> obj, ret |-> ringbuf_getUsedLength(obj), out |-> <<>>])

IsEmpty ==
    /\ Ready
    /\ Do("isEmpty", <<>>, [obj |-> obj, ret |-> ringbuf_isEmpty(obj), out |-> <<>>])

IsFull ==
    /\ Ready
    /\ Do("isFull", <<>>, [obj |-> obj, ret |-> ringbuf_isFull(obj), out |-> <<>>])

\* A peek followed at once by a peek with the same arguments: the record keeps
\* what the first peek returned and handed out.
PeekAgain ==
    /\ call.op = "peek"
    /\ Do("peekAgain",
          [index |-> call.args.index, length |-> call.args.length,
           ret1 |-> call.ret, out1 |-> call.out, pre1 |-> call.pre],
          ringbuf_peek(obj, call.args.index, call.args.length))

\* A write into an empty buffer followed at once by a read of as many bytes:
\* the record keeps the data written, what the write returned and where the
\* empty buffer's front was.
WriteThenRead ==
    /\ call.op = "write"
    /\ call.pre.used = 0
    /\ call.args.length \in 1 .. call.pre.size
    /\ Do("writeThenRead",
          [data |-> call.args.data, length |-> call.args.length,
           wret |-> call.ret, front |-> call.pre.front, rear |-> call.pre.rear],
          ringbuf_read(obj, call.args.length))

\* A non-force write that stored all its bytes followed at once by
\* ringbuf_remove(-length): the record keeps the data written and the object
\* before the write.
WriteThenRemove ==
    /\ \/ call.op = "write"
       \/ call.op = "writeB" /\ ~call.args.flag
    /\ call.args.length >= 1
    /\ call.ret = call.args.length
    /\ Do("writeThenRemove",
          [data |-> call.args.data, length |-> call.args.length, pre1 |-> call.pre],
          ringbuf_remove(obj, -call.args.length))

\* The caller has looked at the result; the next call may start.  Nothing is
\* defined after a call that divided by zero.
Return ==
    /\ call.op \notin {"none", "updatePointerDiv0", "trap"}
    /\ call' = Idle(obj)
    /\ UNCHANGED <<variant, obj, fifo, heap, ptr>>

Next ==
    \/ Write
    \/ WriteForce
    \/ WriteB
    \/ Read
    \/ ReadB
    \/ Remove
    \/ Modify
    \/ Peek
    \/ Memset
    \/ UpdatePointer
    \/ Strlen
    \/ Strchr
    \/ Strstr
    \/ GetUsedLength
    \/ IsEmpty
    \/ IsFull
    \/ PeekAgain
    \/ WriteThenRead
    \/ WriteThenRemove
    \/ Return

\* The whole interface, called in any order with any arguments.
Spec == Init /\ [][Next]_vars

\* The interface with ringbuf_deinit and ringbuf_init called at any time.
LifeNext ==
    \/ Write
    \/ WriteForce
    \/ WriteB
    \/ Read
    \/ ReadB
    \/ Remove
    \/ Modify
    \/ Peek
    \/ Memset
    \/ UpdatePointer
    \/ UpdatePointerDiv0
    \/ Strlen
    \/ Strchr
    \/ Strstr
    \/ GetUsedLength
    \/ IsEmpty
    \/ IsFull
    \/ PeekAgain
    \/ WriteThenRead
    \/ WriteThenRemove
    \/ Deinit
    \/ Reinit
    \/ Return

SpecLife == Init /\ [][LifeNext]_vars

---------------------------------------------------------------------------
(* Buffers from ringbuf_create *)

\* The caller's pointer is not assigned yet and nothing is allocated.
InitAlloc ==
    /\ variant \in {"A", "B"}
    /\ obj = NoObject
    /\ call = Idle(obj)
    /\ fifo = [q |-> <<>>, out |-> <<>>]
    /\ heap = EmptyHeap
    /\ ptr = FALSE

\* One call that works on the allocator: the caller's pointer becomes newptr.
AllocDo(op, args, res, newptr) ==
    /\ obj' = res.obj
    /\ call' = MkCall(op, args, obj, res)
    /\ heap' = res.heap
    /\ ptr' = newptr
    /\ UNCHANGED <<variant, fifo>>

\* p = ringbuf_create(size) while the caller holds no buffer; each of the two
\* requests may fail, and the new storage holds any bytes.
Create ==
    /\ Ready
    /\ ~ptr
    /\ \E size \in UInt16, ok1 \in BOOLEAN, ok2 \in BOOLEAN :
          \E a \in [0 .. size - 1 -> Byte] :
             LET res == ringbuf_create(heap, size, ok1, ok2, a) IN
             AllocDo("create", [size |-> size, ok1 |-> ok1, ok2 |-> ok2, heap |-> heap],
                     res, res.ret)

\* ringbuf_delete(p) of the buffer the caller holds; p is not used afterwards.
Delete ==
    /\ Ready
    /\ ptr
    /\ AllocDo("delete", [ptr |-> TRUE, heap |-> heap], ringbuf_delete(heap, TRUE, obj), FALSE)

\* ringbuf_delete(NULL).
DeleteNull ==
    /\ Ready
    /\ AllocDo("delete", [ptr |-> FALSE, heap |-> heap], ringbuf_delete(heap, FALSE, obj), ptr)

\* A non-force write to the buffer the caller holds.
AllocWrite ==
    /\ Ready
    /\ ptr
    /\ \E pdata \in Data :
          Do("write", [data |-> pdata, length |-> Len(pdata)],
             IF variant = "A"
             THEN ringbuf_write(obj, pdata, Len(pdata))
             ELSE ringbuf_writeB(obj, pdata, Len(pdata), FALSE))

\* A best-effort read from the buffer the caller holds.
AllocRead ==
    /\ Ready
    /\ ptr
    /\ \E length \in UInt16 :
          Do("read", [length |-> length],
             IF variant = "A"
             THEN ringbuf_read(obj, length)
             ELSE ringbuf_readB(obj, length, FALSE))

AllocNext ==
    \/ Create
    \/ Delete
    \/ DeleteNull
    \/ AllocWrite
    \/ AllocRead
    \/ Return

\* Buffers made by ringbuf_create, used, and given back to ringbuf_delete.
SpecAlloc == InitAlloc /\ [][AllocNext]_vars

---------------------------------------------------------------------------
(* Non-force writes and best-effort reads against an abstract queue *)

\* What one call does to the abstract bounded queue: a write appends the first
\* `ret` bytes of its data, a read hands out and removes the first `ret` bytes.
FifoStep(op, pdata, ret) ==
    IF op = "write"
    THEN fifo' = [q |-> fifo.q \o SubSeq(pdata, 1, ret), out |-> <<>>]
    ELSE fifo' = [q |-> SubSeq(fifo.q, ret + 1, Len(fifo.q)),
                  out |-> SubSeq(fifo.q, 1, ret)]

FifoDo(op, args, res) ==
    /\ obj' = res.obj
    /\ call' = MkCall(op, args, obj, res)
    /\ UNCHANGED <<variant, heap, ptr>>

FifoWrite ==
    /\ Ready
    /\ variant = "A"
    /\ \E pdata \in Data :
          LET res == ringbuf_write(obj, pdata, Len(pdata)) IN
          /\ FifoDo("write", [data |-> pdata, length |-> Len(pdata)], res)
          /\ FifoStep("write", pdata, res.ret)

FifoWriteB ==
    /\ Ready
    /\ variant = "B"
    /\ \E pdata \in Data :
          LET res == ringbuf_writeB(obj, pdata, Len(pdata), FALSE) IN
          /\ FifoDo("writeB", [data |-> pdata, length |-> Len(pdata), flag |-> FALSE], res)
          /\ FifoStep("write", pdata, res.ret)

FifoRead ==
    /\ Ready
    /\ variant = "A"
    /\ \E length \in UInt16 :
          LET res == ringbuf_read(obj, length) IN
          /\ FifoDo("read", [length |-> length], res)
          /\ FifoStep("read", <<>>, res.ret)

FifoReadB ==
    /\ Ready
    /\ variant = "B"
    /\ \E length \in UInt16 :
          LET res == ringbuf_readB(obj, length, FALSE) IN
          /\ FifoDo("readB", [length |-> length, flag |-> FALSE], res)
          /\ FifoStep("read", <<>>, res.ret)

FifoReturn ==
    /\ call.op # "none"
    /\ call' = Idle(obj)
    /\ UNCHANGED <<variant, obj, fifo, heap, ptr>>

FifoNext ==
    \/ FifoWrite
    \/ FifoWriteB
    \/ FifoRead
    \/ FifoReadB
    \/ FifoReturn

\* A freshly bound buffer used only through non-force writes and best-effort reads.
SpecFifo == Init /\ [][FifoNext]_vars

---------------------------------------------------------------------------
(* Helpers of the properties *)

\* The last n elements of a sequence.
LastN(s, n) == SubSeq(s, Len(s) - n + 1, Len(s))

\* Nothing of the object changed during the recorded call.
Unchanged == obj = call.pre

---------------------------------------------------------------------------
(* Properties *)

\* C1: after any sequence of calls on a buffer bound with size > 0 the object
\* satisfies rear = (front + used) % size, 0 <= used <= size, front < size and
\* rear < size.
C1_RingInvariant == RingInv(obj)

\* C2: under non-force writes and best-effort reads from a freshly bound buffer
\* the stored bytes, oldest first, are the abstract bounded queue, and every
\* read hands out what the abstract queue hands out.
C2_FifoRefinement ==
    /\ Contents(obj) = fifo.q
    /\ Len(fifo.q) <= obj.size
    /\ call.op \in {"read", "readB"} => call.out = fifo.out

\* C2 witness: a read of two or more differing bytes that crosses the end of
\* the storage and leaves a byte behind.
C2_Witness ==
    /\ call.op \in {"read", "readB"}
    /\ call.ret >= 2
    /\ call.pre.front + call.ret > obj.size
    /\ call.out[1] # call.out[2]
    /\ fifo.q # <<>>

\* C3: writing N bytes (1 <= N <= size) into an empty buffer and reading N
\* bytes returns N both times and the bytes written, in order, and leaves the
\* buffer empty.
C3_RoundTrip ==
    call.op = "writeThenRead" =>
        /\ call.args.wret = call.args.length
        /\ call.ret = call.args.length
        /\ call.out = call.args.data
        /\ ringbuf_isEmpty(obj)

\* C4: ringbuf_write of variant A with length >= 1 returns
\* n = min(length, size - used), appends the first n bytes of the data to the
\* stored bytes, keeps every byte stored before, leaves front, and adds n to used.
C4_TruncatingWrite ==
    call.op = "write" /\ call.args.length >= 1 =>
        LET p == call.pre
            n == Min(call.args.length, p.size - p.used)
        IN  /\ call.ret = n
            /\ Contents(obj) = Contents(p) \o SubSeq(call.args.data, 1, n)
            /\ obj.front = p.front
            /\ obj.used = p.used + n
            /\ obj.rear = (p.rear + n) % p.size
            /\ p.used = p.size => (call.ret = 0 /\ Unchanged)

\* C5: the flag-based ringbuf_write of variant B with length >= 1 returns 0 and
\* changes nothing when length exceeds the admissible space (size - used
\* without force, size with force); otherwise it returns length and the newest
\* length bytes stored are the data.
C5_AllOrNothingWrite ==
    call.op = "writeB" /\ call.args.length >= 1 =>
        LET p == call.pre
            space == IF call.args.flag THEN p.size ELSE p.size - p.used
        IN  IF call.args.length > space
            THEN call.ret = 0 /\ Unchanged
            ELSE /\ call.ret = call.args.length
                 /\ obj.used >= call.args.length
                 /\ LastN(Contents(obj), call.args.length) = call.args.data
                 /\ obj.rear = (p.rear + call.args.length) % p.size

\* C5 witness: a write without force of more bytes than the space left, on a
\* buffer that has space and could hold the data when empty, is refused whole.
C5_Witness ==
    /\ call.op = "writeB"
    /\ ~call.args.flag
    /\ call.pre.used < call.pre.size
    /\ call.args.length > call.pre.size - call.pre.used
    /\ call.args.length <= call.pre.size
    /\ call.ret = 0
    /\ Unchanged

\* C6: a force write of D, 1 <= |D| <= size, onto stored bytes Q leaves the last
\* min(|Q| + |D|, size) bytes of Q followed by D, used = min(|Q| + |D|, size),
\* front moved on by max(0, |Q| + |D| - size) modulo size, and returns |D|.
C6_ForceWrite ==
    /\ \/ call.op = "writeForce"
       \/ call.op = "writeB" /\ call.args.flag
    /\ call.args.length \in 1 .. call.pre.size
    =>  LET p == call.pre
            Q == Contents(p)
            D == call.args.data
            n == Min(Len(Q) + Len(D), p.size)
        IN  /\ Contents(obj) = LastN(Q \o D, n)
            /\ obj.used = n
            /\ obj.front = (p.front + Max(0, Len(Q) + Len(D) - p.size)) % p.size
            /\ call.ret = Len(D)

\* C7: no write stores more than size bytes in one call or returns a count
\* greater than the size, whatever the length asked (every write returns the
\* number of bytes its loop stored).
C7_WriteBounded ==
    call.op \in {"write", "writeForce", "writeB"} => call.ret <= call.pre.size

\* C8: a best-effort read with length >= 1 returns n = min(length, used), hands
\* out the n oldest bytes in order, moves front on by n modulo size, takes n
\* from used, and leaves rear, the storage and the bytes that remain.
C8_BestEffortRead ==
    /\ \/ call.op = "read"
       \/ call.op = "readB" /\ ~call.args.flag
    /\ call.args.length >= 1
    =>  LET p == call.pre
            n == Min(call.args.length, p.used)
        IN  /\ call.ret = n
            /\ call.out = SubSeq(Contents(p), 1, n)
            /\ obj.front = (p.front + n) % p.size
            /\ obj.used = p.used - n
            /\ obj.rear = p.rear
            /\ obj.arr = p.arr
            /\ Contents(obj) = SubSeq(Contents(p), n + 1, p.used)

\* C8 witness: a read of part of the data that crosses the end of the storage.
C8_Witness ==
    /\ call.op \in {"read", "readB"}
    /\ ~(call.op = "readB" /\ call.args.flag)
    /\ call.ret >= 2
    /\ call.ret < call.pre.used
    /\ call.pre.front + call.ret > call.pre.size
    /\ call.out[1] # call.out[2]

\* C9: ringbuf_read of variant B with strictRead and length > used returns 0 and
\* changes nothing; with strictRead and length <= used it does what the
\* best-effort read does; without strictRead and with length > used it returns
\* used, hands out every stored byte and leaves the buffer empty.
C9_StrictRead ==
    call.op = "readB" =>
        LET p == call.pre
            n == call.args.length
        IN  /\ call.args.flag /\ n > p.used => call.ret = 0 /\ Unchanged /\ call.out = <<>>
            /\ call.args.flag /\ n <= p.used =>
                   /\ call.ret = n
                   /\ call.out = SubSeq(Contents(p), 1, n)
                   /\ obj = [p EXCEPT !.front = (p.front + n) % p.size, !.used = p.used - n]
            /\ ~call.args.flag /\ n > p.used =>
                   /\ call.ret = p.used
                   /\ call.out = Contents(p)
                   /\ obj.used = 0

\* C9 witness: a strict read refused although bytes are stored.
C9_Witness ==
    /\ call.op = "readB"
    /\ call.args.flag
    /\ call.pre.used >= 2
    /\ call.args.length > call.pre.used
    /\ call.ret = 0

\* C10: ringbuf_remove with abs(length) >= used on a buffer that is not empty
\* sets front, rear and used to 0 and returns the former used, whatever the
\* sign of length.
C10_RemoveAll ==
    call.op = "remove" /\ call.pre.used > 0 /\ abs(call.args.length) >= call.pre.used =>
        /\ obj.front = 0
        /\ obj.rear = 0
        /\ obj.used = 0
        /\ call.ret = call.pre.used
        /\ obj.arr = call.pre.arr
        /\ obj.size = call.pre.size

\* C10 witness: a negative length past the stored count, on a buffer whose
\* cursors were not at 0.
C10_Witness ==
    /\ call.op = "remove"
    /\ call.args.length < 0
    /\ call.pre.used >= 2
    /\ -call.args.length > call.pre.used
    /\ call.pre.front > 0
    /\ call.pre.rear > 0
    /\ call.ret = call.pre.used

\* C11: ringbuf_remove(-n) with 0 < n < used returns n, drops the n newest
\* bytes, keeps the used - n oldest bytes in their order, leaves front and the
\* storage, and moves rear back by n modulo size.
C11_LifoRemove ==
    call.op = "remove" /\ call.args.length < 0 /\ -call.args.length < call.pre.used =>
        LET p == call.pre
            n == -call.args.length
        IN  /\ call.ret = n
            /\ obj.used = p.used - n
            /\ Contents(obj) = SubSeq(Contents(p), 1, p.used - n)
            /\ obj.front = p.front
            /\ obj.rear = (p.rear + p.size - n) % p.size
            /\ obj.arr = p.arr
            /\ obj.size = p.size

\* C11 witness: two of three or more stored bytes are dropped from the rear,
\* rear going back across the start of the storage, and the byte kept differs
\* from the newest byte dropped.
C11_Witness ==
    /\ call.op = "remove"
    /\ call.args.length = -2
    /\ call.pre.used > 2
    /\ call.pre.rear < 2
    /\ call.ret = 2
    /\ Contents(call.pre)[1] # Contents(call.pre)[call.pre.used]
    /\ Contents(obj)[1] = Contents(call.pre)[1]

\* C12: for n >= 1, ringbuf_remove(n) and a best-effort read of n bytes from
\* the same state return the same count and leave the same used and the same
\* stored bytes; front and rear agree too unless the buffer became empty.
C12_RemoveIsReadAndIgnore ==
    call.op = "remove" /\ call.args.length \in 1 .. UINT16_MAX =>
        LET n == call.args.length
            r == IF variant = "A"
                 THEN ringbuf_read(call.pre, n)
                 ELSE ringbuf_readB(call.pre, n, FALSE)
        IN  /\ call.ret = r.ret
            /\ obj.used = r.obj.used
            /\ Contents(obj) = Contents(r.obj)
            /\ obj.arr = r.obj.arr
            /\ obj.used > 0 => obj.front = r.obj.front /\ obj.rear = r.obj.rear

\* C12 witness: a removal from the front that leaves bytes behind and takes
\* front across the end of the storage, the oldest byte left differing from
\* the oldest byte before.
C12_Witness ==
    /\ call.op = "remove"
    /\ call.args.length >= 1
    /\ call.args.length < call.pre.used
    /\ call.pre.front + call.args.length >= call.pre.size
    /\ call.ret = call.args.length
    /\ Contents(call.pre)[1] # Contents(obj)[1]

\* C13: ringbuf_peek(index, length) fails exactly when index >= used or
\* index + length > used; otherwise it succeeds and hands out the bytes
\* arr[(front + index + i) % size] for i < length, the stored bytes at the
\* relative positions index .. index + length - 1.
C13_Peek ==
    call.op = "peek" =>
        LET p == call.pre
            index == call.args.index
            length == call.args.length
        IN  IF index >= p.used \/ index + length > p.used
            THEN call.ret = FALSE /\ call.out = <<>>
            ELSE /\ call.ret = TRUE
                 /\ call.out = [i \in 1 .. length |-> p.arr[(p.front + index + i - 1) % p.size]]
                 /\ call.out = SubSeq(Contents(p), index + 1, index + length)

\* C13 witness: a peek from a relative index above 0 whose range crosses the
\* end of the storage and holds differing bytes.
C13_Witness ==
    /\ call.op = "peek"
    /\ call.ret = TRUE
    /\ call.args.index >= 1
    /\ call.args.length >= 2
    /\ ((call.pre.front + call.args.index) % call.pre.size) + call.args.length > call.pre.size
    /\ call.out[1] # call.out[2]

\* C14: ringbuf_peek, ringbuf_strlen, ringbuf_strchr, ringbuf_strstr,
\* ringbuf_getUsedLength, ringbuf_isEmpty and ringbuf_isFull leave front, rear,
\* used, size and the storage as they were, and a peek repeated with the same
\* arguments returns what the first peek returned.
C14_ReadOnly ==
    /\ call.op \in {"peek", "peekAgain", "strlen", "strchr", "strstr",
                    "getUsedLength", "isEmpty", "isFull"} => Unchanged
    /\ call.op = "peekAgain" =>
           /\ call.ret = call.args.ret1
           /\ call.out = call.args.out1
           /\ obj = call.args.pre1

\* C14 witness: a second peek that succeeded on two or more bytes.
C14_Witness ==
    /\ call.op = "peekAgain"
    /\ call.ret = TRUE
    /\ Len(call.out) >= 2
    /\ call.out[1] # call.out[2]
    /\ call.out = call.args.out1

\* C15: ringbuf_modify(index, data, length) fails when index >= used or
\* index + length > used and then changes nothing; otherwise a peek of the
\* range returns data, every other stored byte, every other slot, front, rear,
\* used and size are unchanged, and no slot outside the valid region is written.
C15_Modify ==
    call.op = "modify" =>
        LET p == call.pre
            index == call.args.index
            length == call.args.length
            range == {(p.front + index + i) % p.size : i \in 0 .. length - 1}
            valid == {(p.front + r) % p.size : r \in 0 .. p.used - 1}
        IN  IF index >= p.used \/ index + length > p.used
            THEN call.ret = FALSE /\ Unchanged
            ELSE /\ call.ret = TRUE
                 /\ ringbuf_peek(obj, index, length).ret = TRUE
                 /\ ringbuf_peek(obj, index, length).out = call.args.data
                 /\ \A k \in 0 .. p.size - 1 : k \notin range => obj.arr[k] = p.arr[k]
                 /\ range \subseteq valid
                 /\ \A j \in 1 .. p.used :
                        (j <= index \/ j > index + length) => Contents(obj)[j] = Contents(p)[j]
                 /\ obj.front = p.front
                 /\ obj.rear = p.rear
                 /\ obj.used = p.used
                 /\ obj.size = p.size

\* C15 witness: a modify of two bytes across the end of the storage that
\* changes a byte, on a buffer with a free slot.
C15_Witness ==
    /\ call.op = "modify"
    /\ call.ret = TRUE
    /\ call.args.length >= 2
    /\ ((call.pre.front + call.args.index) % call.pre.size) + call.args.length > call.pre.size
    /\ call.pre.used < call.pre.size
    /\ obj.arr # call.pre.arr

\* C16: ringbuf_memset(index, value, length) returns 0 and changes nothing when
\* index >= size or length = 0; otherwise it returns n = min(length, size) and
\* sets exactly the slots arr[(front + index + i) % size], i < n, to value; in
\* every case front, rear and used are left.
C16_Memset ==
    call.op = "memset" =>
        LET p == call.pre
            index == call.args.index
            n == Min(call.args.length, p.size)
            range == {(p.front + index + i) % p.size : i \in 0 .. n - 1}
        IN  /\ obj.front = p.front
            /\ obj.rear = p.rear
            /\ obj.used = p.used
            /\ obj.size = p.size
            /\ IF index >= p.size \/ call.args.length = 0
               THEN call.ret = 0 /\ Unchanged
               ELSE /\ call.ret = n
                    /\ \A k \in 0 .. p.size - 1 :
                           obj.arr[k] = IF k \in range THEN call.args.value ELSE p.arr[k]

\* C16 witness: a fill that starts past the stored bytes, crosses the end of
\* the storage, changes a slot and leaves another slot alone.
C16_Witness ==
    /\ call.op = "memset"
    /\ call.args.index >= call.pre.used
    /\ call.ret >= 2
    /\ call.ret < call.pre.size
    /\ ((call.pre.front + call.args.index) % call.pre.size) + call.ret > call.pre.size
    /\ obj.arr # call.pre.arr

\* C17: a ringbuf_updatePointer(front, rear, used) that succeeds leaves used
\* equal to the argument and front and rear equal to the arguments modulo size;
\* with front = rear modulo size and used = size it succeeds, and then
\* ringbuf_getUsedLength gives size and ringbuf_isFull is true.
C17_UpdatePointerSuccess ==
    call.op = "updatePointer" =>
        LET p == call.pre
            a == call.args
        IN  /\ call.ret = TRUE =>
                   /\ obj.used = a.used
                   /\ obj.front = a.front % p.size
                   /\ obj.rear = a.rear % p.size
            /\ a.front % p.size = a.rear % p.size /\ a.used = p.size =>
                   /\ call.ret = TRUE
                   /\ ringbuf_getUsedLength(obj) = p.size
                   /\ ringbuf_isFull(obj)

\* C18: a ringbuf_updatePointer whose used exceeds size, or whose distance from
\* front to rear around the storage is not used (the full buffer with
\* front = rear apart), returns false, and a call that returns false leaves
\* front, rear, used and the storage as they were.
C18_UpdatePointerReject ==
    call.op = "updatePointer" =>
        LET p == call.pre
            a == call.args
            dist == ((a.rear % p.size) - (a.front % p.size) + p.size) % p.size
        IN  /\ call.ret = FALSE => Unchanged
            /\ a.used > p.size \/ (dist # a.used /\ ~(dist = 0 /\ a.used = p.size)) =>
                   call.ret = FALSE

\* C18 witness: cursors that do not match the count, with a count the buffer
\* could hold, are refused on a buffer that holds bytes.
C18_Witness ==
    /\ call.op = "updatePointer"
    /\ call.ret = FALSE
    /\ call.args.used <= call.pre.size
    /\ call.args.front < call.pre.size
    /\ call.args.rear < call.pre.size
    /\ call.args.front # call.pre.front
    /\ call.args.rear # call.pre.rear
    /\ call.args.used # call.pre.used
    /\ call.pre.used > 0

\* C19: ringbuf_strchr(index, ch) with index < used returns the smallest
\* relative index r, index <= r < used, whose stored byte is ch, and -1 when
\* there is none; with index >= used it returns -1.
C19_Strchr ==
    call.op = "strchr" =>
        LET p == call.pre
            index == call.args.index
            hits == {r \in index .. p.used - 1 : Contents(p)[r + 1] = call.args.ch}
        IN  IF index >= p.used \/ hits = {}
            THEN call.ret = -1
            ELSE call.ret \in hits /\ \A r \in hits : call.ret <= r

\* C20: ringbuf_strlen(index) with index < used returns the number of stored
\* bytes from the relative position index up to the first zero byte at a
\* relative position in index .. used - 1, or used - index when there is none;
\* with index >= used it returns 0.
C20_Strlen ==
    call.op = "strlen" =>
        LET p == call.pre
            index == call.args.index
            zeros == {r \in index .. p.used - 1 : Contents(p)[r + 1] = 0}
        IN  IF index >= p.used
            THEN call.ret = 0
            ELSE IF zeros = {}
            THEN call.ret = p.used - index
            ELSE call.ret + index \in zeros /\ \A r \in zeros : call.ret + index <= r

\* C21: ringbuf_strstr(index, pattern) with index < used and a pattern of
\* m >= 1 bytes returns the smallest relative index r, index <= r and
\* r + m <= used, at which the stored bytes r .. r + m - 1 are the pattern, and
\* -1 when there is none; the result is a function of the stored bytes alone.
C21_Strstr ==
    call.op = "strstr" /\ call.args.index < call.pre.used /\ Len(call.args.substring) >= 2 =>
        LET p == call.pre
            index == call.args.index
            m == Len(call.args.substring) - 1
            pattern == SubSeq(call.args.substring, 1, m)
            hits == {r \in index .. p.used - m : SubSeq(Contents(p), r + 1, r + m) = pattern}
        IN  IF hits = {}
            THEN call.ret = -1
            ELSE call.ret \in hits /\ \A r \in hits : call.ret <= r

\* C21 witness: a pattern of two bytes found past the index asked, after a
\* stored byte that does not match, where the match crosses the end of the
\* storage.
C21_Witness ==
    /\ call.op = "strstr"
    /\ Len(call.args.substring) = 3
    /\ call.ret > call.args.index
    /\ ((call.pre.front + call.ret) % call.pre.size) + 2 > call.pre.size
    /\ Contents(call.pre)[call.args.index + 1] = 0

\* C22: ringbuf_write, ringbuf_writeForce, ringbuf_read, ringbuf_remove,
\* ringbuf_peek, ringbuf_modify and ringbuf_memset called with length 0 return
\* 0 (the counts) or false (peek and modify) and change nothing.
C22_ZeroLength ==
    /\ call.op \in {"write", "writeForce", "writeB", "read", "readB",
                    "remove", "peek", "modify", "memset"}
    /\ call.args.length = 0
    =>  /\ Unchanged
        /\ call.out = <<>>
        /\ IF call.op \in {"peek", "modify"} THEN call.ret = FALSE ELSE call.ret = 0

\* C24: a non-force write of length >= 1 bytes that stored them all
\* (length <= size - used), followed by ringbuf_remove(-length), leaves the
\* used and the stored bytes of before the write, and the removal returns length.
C24_LifoUndo ==
    call.op = "writeThenRemove" =>
        /\ call.ret = call.args.length
        /\ obj.used = call.args.pre1.used
        /\ Contents(obj) = Contents(call.args.pre1)

\* C24 witness: two bytes written behind a stored byte, the write crossing the
\* end of the storage, and taken off again.
C24_Witness ==
    /\ call.op = "writeThenRemove"
    /\ call.args.length = 2
    /\ call.args.pre1.used >= 1
    /\ call.args.pre1.rear + 2 > call.args.pre1.size
    /\ call.ret = 2
    /\ obj.rear = call.args.pre1.rear

\* C26: with used and size of the declared width, ringbuf_writeForce of
\* length >= 1 bytes on a full buffer leaves used = size and moves front and
\* rear on by length modulo size, for every size up to UINT16_MAX.
C26_ForceWriteNoWrap ==
    call.op = "writeForce" /\ call.args.length >= 1 /\ RingInv(call.pre)
                           /\ call.pre.used = call.pre.size =>
        /\ obj.used = call.pre.size
        /\ obj.front = (call.pre.front + call.args.length) % call.pre.size
        /\ obj.rear = (call.pre.rear + call.args.length) % call.pre.size
        /\ obj.front = obj.rear

\* C27: from one state and for one data of 1 .. size bytes, ringbuf_writeForce
\* of src/ringbuf.c and ringbuf_write(.., force = true) of src/unnamed/part_000
\* return the same count and leave the same storage, front, rear and used.
C27_VariantsAgreeOnForce ==
    /\ call.op = "writeForce" /\ call.args.length \in 1 .. call.pre.size =>
           LET r == ringbuf_writeB(call.pre, call.args.data, call.args.length, TRUE)
           IN  r.ret = call.ret /\ r.obj = obj
    /\ call.op = "writeB" /\ call.args.flag /\ call.args.length \in 1 .. call.pre.size =>
           LET r == ringbuf_writeForce(call.pre, call.args.data, call.args.length)
           IN  r.ret = call.ret /\ r.obj = obj

\* C25: after ringbuf_deinit (size = 0, arr = NULL) every operation, whatever
\* its arguments, divides by no zero size, changes nothing, hands out nothing
\* and returns 0 (the counts), false (peek, modify, updatePointer) or -1
\* (strchr, strstr).
C25_AfterDeinit ==
    call.op \notin {"none", "deinit", "init", "isEmpty", "isFull"} /\ call.pre.size = 0 =>
        /\ call.op \notin {"updatePointerDiv0", "trap"}
        /\ Unchanged
        /\ call.out = <<>>
        /\ IF call.op \in {"peek", "peekAgain", "modify", "updatePointer"}
           THEN call.ret = FALSE
           ELSE IF call.op \in {"strchr", "strstr"}
           THEN call.ret = -1
           ELSE call.ret = 0

\* C28: in every state reached through ringbuf_init, the operations and
\* ringbuf_deinit, ringbuf_isEmpty and ringbuf_isFull are not both true,
\* isEmpty is used = 0, and isFull is that a non-force write of one byte
\* stores nothing.
C28_EmptyFull ==
    call.op \notin {"updatePointerDiv0", "trap"} =>
        /\ ~(ringbuf_isEmpty(obj) /\ ringbuf_isFull(obj))
        /\ ringbuf_isEmpty(obj) <=> obj.used = 0
        /\ ringbuf_isFull(obj) <=>
               IF variant = "A"
               THEN ringbuf_write(obj, <<0>>, 1).ret = 0
               ELSE ringbuf_writeB(obj, <<0>>, 1, FALSE).ret = 0

\* C23: ringbuf_create(size), with an allocator that may fail either request,
\* returns a buffer with used = front = rear = 0 and the two blocks (record and
\* storage) outstanding, or NULL with no block outstanding: size 0 asks for
\* nothing, a failed request for the storage frees the record.  ringbuf_delete
\* of a created buffer frees both blocks once each; ringbuf_delete(NULL) frees
\* nothing.
C23_CreateDelete ==
    /\ ~heap.bad
    /\ call.op = "create" =>
           IF call.ret
           THEN /\ call.args.size > 0 /\ call.args.ok1 /\ call.args.ok2
                /\ obj.size = call.args.size
                /\ obj.used = 0 /\ obj.front = 0 /\ obj.rear = 0
                /\ DOMAIN obj.arr = 0 .. obj.size - 1
                /\ heap.live = {"obj", "arr"}
                /\ call.out = <<"malloc obj", "malloc arr">>
                /\ ptr
           ELSE /\ heap.live = {}
                /\ ~ptr
                /\ call.args.size = 0 => call.out = <<>>
                /\ call.args.size > 0 /\ ~call.args.ok1 => call.out = <<"malloc obj">>
                /\ call.args.size > 0 /\ call.args.ok1 =>
                       ~call.args.ok2 /\ call.out = <<"malloc obj", "malloc arr", "free obj">>
    /\ call.op = "delete" =>
           IF call.args.ptr
           THEN /\ call.out = <<"free arr", "free obj">>
                /\ call.args.heap.live = {"obj", "arr"}
                /\ heap.live = {}
                /\ ~ptr
           ELSE /\ call.out = <<>>
                /\ heap = call.args.heap
                /\ Unchanged
    /\ ptr <=> heap.live = {"obj", "arr"}
    /\ ~ptr => heap.live = {}

\* C23 witness: a created buffer that holds bytes is deleted and both blocks
\* are given back.
C23_Witness ==
    /\ call.op = "delete"
    /\ call.args.ptr
    /\ call.pre.used > 0
    /\ heap.live = {}
    /\ call.out = <<"free arr", "free obj">>

===========================================================================
